---- MODULE Spec2Model ----
(***************************************************************************)
(* Incident-analysis pipeline of server/app/rag/pipeline.py (analyze_log)  *)
(* with its collaborators: the Safety Gate (_safe_check over               *)
(* utils/safety.py), the response parser/validator, the escalation         *)
(* trigger, the prompt builders of rag/prompts.py and the fallback         *)
(* evidence source.                                                        *)
(*                                                                         *)
(* Text is modelled as a sequence of one-character strings, so that the    *)
(* regular expressions of the Safety Gate are matched as re.search matches *)
(* them.                                                                   *)
(***************************************************************************)
EXTENDS Integers, Sequences, FiniteSets, TLC

VARIABLES
    pc,                      \* position inside analyze_log
    enable_mock_web_search,  \* settings.enable_mock_web_search
    log_text,                \* the (truncated) log text, by its length
    contexts,                \* retrieved / trimmed context items (text lengths)
    plan_raw,                \* raw planner output
    plan,                    \* validated planner result
    critic_raw,              \* raw critic output
    reviewed,                \* result carried through the gate and escalation
    reviewed_is_plan,        \* TRUE when `reviewed` and `plan` are the same object
    web_results,             \* fallback evidence items
    result,                  \* value returned by analyze_log
    error,                   \* exception raised by analyze_log ("none" if none)
    calls,                   \* how often each collaborator was invoked
    gate_in,                 \* Safety Gate harness: the plan handed to the gate
    gate_out,                \* Safety Gate harness: the plan after the gate
    gate_n,                  \* Safety Gate harness: number of applications
    http_response,           \* api.py: the HTTP response of the analyze handler
    trim_in,                 \* context window harness: the retrieved items
    trim_out,                \* context window harness: the items kept
    text_in,                 \* parser harness: the raw Reasoner text
    parse_out,               \* parser harness: what _parse_json_strict gives
    embed_in,                \* embed harness: the upstream response
    embed_out,               \* embed harness: what EmbeddingsClient.embed gives
    store,                   \* concurrent requests: the shared vector store
    req,                     \* concurrent requests: the locals of each request
    web_query,               \* the query of the fallback search, by its length
    search_in,               \* search harness: query, corpus and top_k
    search_out,              \* search harness: what mock_web_search gives
    chat                     \* ui/app_chainlit.py: a ChatSession and its last send

vars == <<pc, enable_mock_web_search, log_text, contexts, plan_raw, plan,
          critic_raw, reviewed, reviewed_is_plan, web_results, result, error,
          calls, gate_in, gate_out, gate_n, http_response, trim_in, trim_out,
          text_in, parse_out, embed_in, embed_out, store, req, web_query,
          search_in, search_out, chat>>

pipeline_vars == <<pc, enable_mock_web_search, log_text, contexts, plan_raw,
                   plan, critic_raw, reviewed, reviewed_is_plan, web_results,
                   result, error, calls>>

gate_vars == <<gate_in, gate_out, gate_n>>

\* The variables of the other harnesses
harness_vars == <<trim_in, trim_out, text_in, parse_out, embed_in, embed_out,
                  store, req, search_in, search_out, chat>>

\* The variables analyze_log leaves alone outside its search
aux_vars == <<harness_vars, web_query>>

----------------------------------------------------------------------------
(* Bounds of the model *)

MaxSteps == 2            \* plan_steps per Reasoner output in the pipeline
MaxGateSteps == 3        \* plan_steps per plan handed to the gate harness
MaxGateApplications == 2 \* applications of the gate in the gate harness
MaxWebResults == 1       \* items the fallback evidence source returns
MaxCtxItems == 3         \* retrieved items handed to the context window harness
MaxTextLen == 5          \* tokens of a raw text handed to the parser harness
MaxTexts == 3            \* texts in one call of the embedder
MaxDocs == 3             \* files of the fallback corpus in the search harness
MaxSends == 2            \* calls of ChatSession.send on one session

----------------------------------------------------------------------------
(* utils/safety.py *)

\* Commands a plan step may carry, written out character by character:
\* "kubectl get po", "rm -rf /data", "RM  -Rf /", "rm -rfv x", "mkfs.ext4".
CmdGetPods == <<"k","u","b","e","c","t","l"," ","g","e","t"," ","p","o">>
CmdRmRf    == <<"r","m"," ","-","r","f"," ","/","d","a","t","a">>
CmdRmRfUp  == <<"R","M"," "," ","-","R","f"," ","/">>
CmdRmFile  == <<"r","m"," ","-","r","f","v"," ","x">>
CmdMkfs    == <<"m","k","f","s",".","e","x","t","4">>

UpperToLower ==
    [c \in {"A","B","C","D","E","F","G","H","I","J","K","L","M","N","O","P",
            "Q","R","S","T","U","V","W","X","Y","Z"} |->
        CASE c = "A" -> "a" [] c = "B" -> "b" [] c = "C" -> "c" [] c = "D" -> "d"
          [] c = "E" -> "e" [] c = "F" -> "f" [] c = "G" -> "g" [] c = "H" -> "h"
          [] c = "I" -> "i" [] c = "J" -> "j" [] c = "K" -> "k" [] c = "L" -> "l"
          [] c = "M" -> "m" [] c = "N" -> "n" [] c = "O" -> "o" [] c = "P" -> "p"
          [] c = "Q" -> "q" [] c = "R" -> "r" [] c = "S" -> "s" [] c = "T" -> "t"
          [] c = "U" -> "u" [] c = "V" -> "v" [] c = "W" -> "w" [] c = "X" -> "x"
          [] c = "Y" -> "y" [] c = "Z" -> "z"]

\* str.lower()
Lower(s) ==
    [i \in 1..Len(s) |->
        IF s[i] \in DOMAIN UpperToLower THEN UpperToLower[s[i]] ELSE s[i]]

\* \w and \s of the re module
WordChars ==
    {"a","b","c","d","e","f","g","h","i","j","k","l","m","n","o","p","q","r",
     "s","t","u","v","w","x","y","z","0","1","2","3","4","5","6","7","8","9",
     "_"} \cup DOMAIN UpperToLower
SpaceChars == {" ", "\t", "\n", "\r"}

IsWordAt(s, i) == i >= 1 /\ i <= Len(s) /\ s[i] \in WordChars

\* \b holds between positions j-1 and j
IsBoundary(s, j) == IsWordAt(s, j - 1) # IsWordAt(s, j)

\* A pattern is a sequence of elements: a one-character string is a literal,
\* "\\b" is a word boundary, "\\s+" and "\\s*" are runs of white space.
RECURSIVE MatchFrom(_, _, _, _)
MatchFrom(pat, k, s, j) ==
    IF k > Len(pat) THEN TRUE
    ELSE IF pat[k] = "\\b" THEN IsBoundary(s, j) /\ MatchFrom(pat, k + 1, s, j)
    ELSE IF pat[k] \in {"\\s+", "\\s*"} THEN
        \E n \in (IF pat[k] = "\\s+" THEN 1 ELSE 0)..(Len(s) - j + 1) :
            /\ \A m \in j..(j + n - 1) : s[m] \in SpaceChars
            /\ MatchFrom(pat, k + 1, s, j + n)
    ELSE j <= Len(s) /\ s[j] = pat[k] /\ MatchFrom(pat, k + 1, s, j + 1)

\* re.search(p, c)
ReSearch(pat, s) == \E j \in 1..(Len(s) + 1) : MatchFrom(pat, 1, s, j)

DANGEROUS_PATTERNS ==
    << <<"\\b","r","m","\\s+","-","r","f","\\b">>,
       <<"\\b","w","i","p","e","f","s","\\b">>,
       <<"\\b","m","k","f","s",".">>,
       <<"\\b","d","d","\\s+","i","f","=">>,
       <<":","(",")","\\s*","{","\\s*",":","\\s*","|","\\s*",":","\\s*",";",
         "\\s*","}","\\s*",";","\\s*",":">> >>

is_command_dangerous(cmd) ==
    \E p \in 1..Len(DANGEROUS_PATTERNS) : ReSearch(DANGEROUS_PATTERNS[p], Lower(cmd))

----------------------------------------------------------------------------
(* schemas/models.py *)

StatusValues == {"final", "need_more_info"}
ConfidenceValues == {"high", "medium", "low"}
RiskValues == {"low", "med", "medium", "high"}

PlanStep(command, risk) ==
    [title |-> "step", command |-> command, purpose |-> "purpose",
     expected |-> "expected", risk |-> risk]

EvidenceItem == [type |-> "log", snippet |-> "snippet", source |-> "source"]

\* An info_request as a Reasoner writes it
InfoRequest ==
    [title |-> "collect", command |-> CmdGetPods,
     why |-> [text |-> "need more evidence", about |-> <<>>]]

\* Another info_request a Reasoner may write
InfoRequest2 ==
    [title |-> "describe", command |-> CmdGetPods,
     why |-> [text |-> "need the pod events", about |-> <<>>]]

SeqsUpTo(S, n) == UNION {[1..k -> S] : k \in 0..n}

\* AnalysisResponse.model_validate: the fields are present, the enums are
\* members; a risk is kept as written ("med" is not rewritten to "medium").
model_validate_ok(obj) ==
    /\ obj.status \in StatusValues
    /\ obj.confidence \in ConfidenceValues
    /\ \A i \in 1..Len(obj.plan_steps) : obj.plan_steps[i].risk \in RiskValues

\* No object (a variable not yet assigned)
None ==
    [status |-> "none", root_cause |-> "", confidence |-> "none",
     reasoning_summary |-> "", evidence |-> <<>>, plan_steps |-> <<>>,
     info_requests |-> <<>>]

\* No text (a variable not yet assigned)
NoText == [kind |-> "unset", obj |-> None]

----------------------------------------------------------------------------
(* rag/pipeline.py: helpers *)

FirstDangerous(steps) ==
    CHOOSE i \in 1..Len(steps) :
        /\ is_command_dangerous(steps[i].command)
        /\ \A j \in 1..(i - 1) : ~is_command_dangerous(steps[j].command)

UnsafeInfoRequest(command) ==
    [title |-> "Unsafe command detected", command |-> <<"N","/","A">>,
     why |-> [text |-> "Generated command looks unsafe: {}. Please review and provide safer constraints.",
              about |-> command]]

\* A gate that drops only the offending steps (not what the code does)
SafeCheckPruning(response) ==
    [response EXCEPT !.plan_steps =
        SelectSeq(response.plan_steps, LAMBDA st : ~is_command_dangerous(st.command))]

\* A gate that looks at the first step only (not what the code does)
SafeCheckFirstStepOnly(response) ==
    IF response.plan_steps # <<>>
       /\ is_command_dangerous(response.plan_steps[1].command)
    THEN [response EXCEPT
            !.status = "need_more_info",
            !.info_requests = Append(response.info_requests,
                UnsafeInfoRequest(response.plan_steps[1].command)),
            !.plan_steps = <<>>]
    ELSE response

\* A gate that goes on after the first dangerous step and appends an
\* info_request for every dangerous step (not what the code does)
SafeCheckEveryDangerous(response) ==
    LET bad == SelectSeq(response.plan_steps,
                         LAMBDA st : is_command_dangerous(st.command))
    IN  IF bad # <<>>
        THEN [response EXCEPT
                !.status = "need_more_info",
                !.info_requests = response.info_requests \o
                    [i \in 1..Len(bad) |-> UnsafeInfoRequest(bad[i].command)],
                !.plan_steps = <<>>]
        ELSE response

\* A gate that also lowers the confidence of a plan it downgrades (not what
\* the code does)
SafeCheckLoweringConfidence(response) ==
    IF \E i \in 1..Len(response.plan_steps) :
            is_command_dangerous(response.plan_steps[i].command)
    THEN [response EXCEPT
            !.status = "need_more_info",
            !.confidence = "low",
            !.info_requests = Append(response.info_requests,
                UnsafeInfoRequest(
                    response.plan_steps[FirstDangerous(response.plan_steps)].command)),
            !.plan_steps = <<>>]
    ELSE response

\* A gate that flags the plan but leaves its steps in place (not what the
\* code does)
SafeCheckKeepingSteps(response) ==
    IF \E i \in 1..Len(response.plan_steps) :
            is_command_dangerous(response.plan_steps[i].command)
    THEN [response EXCEPT
            !.status = "need_more_info",
            !.info_requests = Append(response.info_requests,
                UnsafeInfoRequest(
                    response.plan_steps[FirstDangerous(response.plan_steps)].command))]
    ELSE response

_safe_check(response) ==
    IF \E i \in 1..Len(response.plan_steps) :
            is_command_dangerous(response.plan_steps[i].command)
    THEN [response EXCEPT
            !.status = "need_more_info",
            !.info_requests = Append(response.info_requests,
                UnsafeInfoRequest(
                    response.plan_steps[FirstDangerous(response.plan_steps)].command)),
            !.plan_steps = <<>>]
    ELSE response

\* A trigger that forgets the confidence (not what the code does)
NeedsEscalationNoConfidence(resp) ==
    \/ resp.status = "need_more_info"
    \/ resp.plan_steps = <<>>

_needs_escalation(resp) ==
    \/ resp.status = "need_more_info"
    \/ resp.plan_steps = <<>>
    \/ resp.confidence = "low"

\* _parse_json_strict. A raw Reasoner text is one of: the text of a JSON
\* value alone ("json"), a JSON object with prose before and after it, the
\* prose holding no brace ("prose_json"), or text that holds no JSON
\* ("not_json"). json.loads of the stripped text succeeds on the first kind
\* only; the slice from the first "{" to the last "}" is the object on the
\* second kind; on the third json.loads raises JSONDecodeError.
_parse_json_strict(text) ==
    IF text.kind = "json" THEN [ok |-> TRUE, obj |-> text.obj, err |-> "none"]
    ELSE IF text.kind = "prose_json"
         THEN [ok |-> TRUE, obj |-> text.obj, err |-> "none"]
         ELSE [ok |-> FALSE, obj |-> None, err |-> "JSONDecodeError"]

\* _parse_json_strict followed by AnalysisResponse.model_validate, as in the
\* try blocks of analyze_log: the validated plan, or the exception raised.
ParseValidate(text) ==
    LET parsed == _parse_json_strict(text) IN
    IF ~parsed.ok THEN parsed
    ELSE IF model_validate_ok(parsed.obj) THEN parsed
    ELSE [ok |-> FALSE, obj |-> None, err |-> "ValidationError"]

\* The result analyze_log returns when the planner output cannot be used
CannedResponse(errname) ==
    [status |-> "need_more_info",
     root_cause |-> "Unable to generate a valid plan from the provided log.",
     confidence |-> "low",
     reasoning_summary |-> IF errname = "JSONDecodeError"
        THEN "Planner returned non-parseable output. Error: JSONDecodeError"
        ELSE "Planner returned non-parseable output. Error: ValidationError",
     evidence |-> <<>>,
     plan_steps |-> <<>>,
     info_requests |-> <<
        [title |-> "Provide more context",
         command |-> <<"Provide full pod name/namespace and 200 lines around the error, plus 'kubectl describe pod ...'">>,
         why |-> [text |-> "Current log excerpt is insufficient or malformed for planning.",
                  about |-> <<>>]] >>]

----------------------------------------------------------------------------
(* utils/text.py, core/config.py *)

max_log_chars == 14000
max_context_chars == 12000
web_mock_top_k == 3
TruncationMarkerLen == 18     \* len("\n...[truncated]...")

\* truncate(s, max_chars), on lengths
truncate(len, max_chars) ==
    IF len <= max_chars THEN len ELSE max_chars + TruncationMarkerLen

----------------------------------------------------------------------------
(* rag/prompts.py: the parameters the prompt builders declare *)

planner_prompt_params == <<"log_text", "contexts">>
critic_prompt_params == <<"log_text", "contexts", "plan_json">>

\* Python's binding of a call with npos positional arguments and the keyword
\* arguments kwargs to a function whose parameters (none with a default) are
\* params; FALSE is a TypeError.
Binds(params, npos, kwargs) ==
    /\ npos <= Len(params)
    /\ kwargs \subseteq {params[i] : i \in (npos + 1)..Len(params)}
    /\ npos + Cardinality(kwargs) = Len(params)

----------------------------------------------------------------------------
(* Values of the variables a specification does not use *)

NoResponse == [status |-> 0, body |-> None]

AuxIdle ==
    /\ trim_in = <<>>
    /\ trim_out = <<>>
    /\ text_in = <<>>
    /\ parse_out = <<>>
    /\ embed_in = <<>>
    /\ embed_out = <<>>
    /\ store = {}
    /\ req = <<>>
    /\ web_query = 0
    /\ search_in = <<>>
    /\ search_out = <<>>
    /\ chat = <<>>

GateIdle ==
    /\ gate_in = None
    /\ gate_out = None
    /\ gate_n = 0

PipelineIdle ==
    /\ enable_mock_web_search = FALSE
    /\ log_text = 0
    /\ contexts = <<>>
    /\ plan_raw = NoText
    /\ plan = None
    /\ critic_raw = NoText
    /\ reviewed = None
    /\ reviewed_is_plan = FALSE
    /\ web_results = <<>>
    /\ result = None
    /\ error = "none"
    /\ calls = [c \in {"embed", "query", "planner", "critic", "search", "gate"} |-> 0]
    /\ http_response = NoResponse

----------------------------------------------------------------------------
(* Safety Gate harness: _safe_check applied to a plan drawn from a bounded  *)
(* set, once and again on its own output.                                   *)

GateCommands == {CmdGetPods, CmdRmRf, CmdRmRfUp, CmdRmFile, CmdMkfs}

GateSteps == {PlanStep(c, "low") : c \in GateCommands}

GatePlans ==
    [status : StatusValues, root_cause : {"rc"}, confidence : ConfidenceValues,
     reasoning_summary : {"why"}, evidence : {<<EvidenceItem>>},
     plan_steps : SeqsUpTo(GateSteps, MaxGateSteps),
     info_requests : {<<>>, <<InfoRequest>>, <<InfoRequest2, InfoRequest>>}]

GateApply ==
    /\ pc = "gate"
    /\ gate_n < MaxGateApplications
    /\ gate_out' = _safe_check(gate_out)
    /\ gate_n' = gate_n + 1
    /\ UNCHANGED <<gate_in, pipeline_vars, http_response, aux_vars>>

InitGate ==
    /\ pc = "gate"
    /\ enable_mock_web_search = FALSE
    /\ log_text = 0
    /\ contexts = <<>>
    /\ plan_raw = NoText
    /\ plan = None
    /\ critic_raw = NoText
    /\ reviewed = None
    /\ reviewed_is_plan = FALSE
    /\ web_results = <<>>
    /\ result = None
    /\ error = "none"
    /\ calls = [c \in {"embed", "query", "planner", "critic", "search", "gate"} |-> 0]
    /\ gate_in \in GatePlans
    /\ gate_out = gate_in
    /\ gate_n = 0
    /\ http_response = NoResponse
    /\ AuxIdle

NextGate == GateApply

SpecGate == InitGate /\ [][NextGate]_vars

HasDangerous(p) ==
    \E i \in 1..Len(p.plan_steps) : is_command_dangerous(p.plan_steps[i].command)

\* C3: a plan with a dangerous command at any position comes out of the gate
\* with no plan steps at all and status need_more_info (nothing is kept, not
\* even the safe steps).
C3_GateFailClosed ==
    (gate_n >= 1 /\ HasDangerous(gate_in)) =>
        (gate_out.plan_steps = <<>> /\ gate_out.status = "need_more_info")

\* C3 witness: a three-step plan, safe / dangerous / safe, has been gated.
C3_Witness ==
    /\ gate_n = 1
    /\ Len(gate_in.plan_steps) = 3
    /\ ~is_command_dangerous(gate_in.plan_steps[1].command)
    /\ is_command_dangerous(gate_in.plan_steps[2].command)
    /\ ~is_command_dangerous(gate_in.plan_steps[3].command)
    /\ gate_in.status = "final"
    /\ gate_out.plan_steps = <<>>

\* C22: a downgrade appends exactly one info_request, after the ones the
\* plan had, which stay as they were and in their order; it names the
\* command of the first dangerous step of the plan.
C22_OneInfoRequestForFirstDangerous ==
    (gate_n >= 1 /\ HasDangerous(gate_in)) =>
        \E i \in 1..Len(gate_in.plan_steps) :
            /\ is_command_dangerous(gate_in.plan_steps[i].command)
            /\ \A j \in 1..(i - 1) :
                    ~is_command_dangerous(gate_in.plan_steps[j].command)
            /\ Len(gate_out.info_requests) = Len(gate_in.info_requests) + 1
            /\ SubSeq(gate_out.info_requests, 1, Len(gate_in.info_requests))
                    = gate_in.info_requests
            /\ gate_out.info_requests[Len(gate_out.info_requests)]
                    = UnsafeInfoRequest(gate_in.plan_steps[i].command)

\* C22 witness: a plan with two info_requests, a safe step and then two
\* dangerous steps with different commands has been gated; the request
\* appended names the first of the two.
C22_Witness ==
    /\ gate_n = 1
    /\ gate_in.info_requests = <<InfoRequest2, InfoRequest>>
    /\ Len(gate_in.plan_steps) = 3
    /\ gate_in.plan_steps[1].command = CmdGetPods
    /\ gate_in.plan_steps[2].command = CmdMkfs
    /\ gate_in.plan_steps[3].command = CmdRmRf
    /\ gate_out.info_requests[3].why.about = CmdMkfs

\* C25: the gate returns a plan with no dangerous command as it was, in
\* every field; when it downgrades a plan it leaves root_cause, confidence,
\* reasoning_summary and evidence as they were.
C25_GateFrame ==
    gate_n >= 1 =>
        /\ ~HasDangerous(gate_in) => gate_out = gate_in
        /\ HasDangerous(gate_in) =>
            /\ gate_out.root_cause = gate_in.root_cause
            /\ gate_out.confidence = gate_in.confidence
            /\ gate_out.reasoning_summary = gate_in.reasoning_summary
            /\ gate_out.evidence = gate_in.evidence

\* C25 witness: a plan of high confidence with a dangerous step has been
\* downgraded and is still of high confidence.
C25_Witness ==
    /\ gate_n = 1
    /\ HasDangerous(gate_in)
    /\ gate_in.confidence = "high"
    /\ gate_in.status = "final"
    /\ gate_out.status = "need_more_info"
    /\ gate_out.confidence = "high"

\* C15: the gate is idempotent: applying it again to its own output changes
\* no field of the plan, and in particular appends no further info_request.
C15_GateIdempotent ==
    [][gate_n >= 1 => gate_out' = gate_out]_vars

\* C15 witness: a plan with a dangerous command has been gated twice and
\* carries exactly one info_request more than it came in with.
C15_Witness ==
    /\ gate_n = 2
    /\ HasDangerous(gate_in)
    /\ gate_out # gate_in
    /\ Len(gate_out.info_requests) = Len(gate_in.info_requests) + 1

----------------------------------------------------------------------------
(* rag/pipeline.py: analyze_log, one action per step of the function.     *)
(* The Embedder, the Retriever, the Reasoner and the fallback evidence    *)
(* source are the environment: each call either raises (a transport error *)
(* or an error status) or returns a value drawn from a bounded set.       *)

\* Lengths of the log texts handed to analyze_log
LogLens == {11, max_log_chars + 1}

\* Blank logs a request may carry: the empty text and a text of three
\* white-space characters (api.py lines 49 and 63: not log_text.strip())
BlankLogs == {0, 3}
IsBlankLog(l) == l \in BlankLogs

\* What the Retriever may return (each item by the length of its text)
ContextItem(len) ==
    [text |-> len, source |-> "kb.md", chunk_index |-> 0, distance |-> 0]
RetrievedUniverse == {<<>>, <<ContextItem(7000), ContextItem(6000)>>}

\* Plans a Reasoner may write
ReasonerSteps == {PlanStep(CmdGetPods, "med"), PlanStep(CmdRmRf, "high")}
ReasonerPlans ==
    [status : StatusValues, root_cause : {"rc"}, confidence : ConfidenceValues,
     reasoning_summary : {"why"}, evidence : {<<EvidenceItem>>},
     plan_steps : SeqsUpTo(ReasonerSteps, MaxSteps),
     info_requests : {<<>>}]

\* A JSON object that is no AnalysisResponse (status outside the enum)
InvalidObject ==
    [status |-> "done", root_cause |-> "rc", confidence |-> "high",
     reasoning_summary |-> "why", evidence |-> <<>>, plan_steps |-> <<>>,
     info_requests |-> <<>>]

\* A plan a Reasoner wraps in prose
ProsePlan ==
    [status |-> "final", root_cause |-> "rc", confidence |-> "medium",
     reasoning_summary |-> "why", evidence |-> <<EvidenceItem>>,
     plan_steps |-> <<PlanStep(CmdGetPods, "low")>>, info_requests |-> <<>>]

\* Raw texts a Reasoner may return
NotJson == [kind |-> "not_json", obj |-> None]
RawUniverse ==
    {NotJson}
    \cup {[kind |-> "json", obj |-> o] : o \in ReasonerPlans \cup {InvalidObject}}
    \cup {[kind |-> "prose_json", obj |-> ProsePlan]}

\* What the fallback evidence source may return: up to top_k items
WebItem == [title |-> "oom", snippet |-> "snippet", source |-> "oom.md", score |-> 1]
WebResultsUniverse ==
    {w \in SeqsUpTo({WebItem}, MaxWebResults) : Len(w) <= web_mock_top_k}

Bump(c) == [calls EXCEPT ![c] = @ + 1]

\* raise: analyze_log ends with an exception
Raise(e) ==
    /\ pc' = "failed"
    /\ error' = e

\* return: analyze_log ends with a value
Return(v) ==
    /\ pc' = "done"
    /\ result' = v

\* lines 84-90: truncate the log, embed it
Embed ==
    /\ pc = "embed"
    /\ log_text' = truncate(log_text, max_log_chars)
    /\ calls' = Bump("embed")
    /\ \/ pc' = "retrieve" /\ UNCHANGED error
       \/ Raise("TransportError")
    /\ UNCHANGED <<enable_mock_web_search, contexts, plan_raw, plan, critic_raw,
                   reviewed, reviewed_is_plan, web_results, result, gate_vars, http_response, aux_vars>>

\* A window that skips an item that does not fit and goes on (not what the
\* code does)
RECURSIVE TrimSkipping(_, _, _)
TrimSkipping(items, i, ctx_chars) ==
    IF i > Len(items) THEN <<>>
    ELSE IF ctx_chars + items[i].text > max_context_chars
         THEN TrimSkipping(items, i + 1, ctx_chars)
         ELSE <<items[i]>> \o TrimSkipping(items, i + 1, ctx_chars + items[i].text)

\* lines 97-106: the context items kept for the prompt
RECURSIVE Trim(_, _, _)
Trim(items, i, ctx_chars) ==
    IF i > Len(items) THEN <<>>
    ELSE IF ctx_chars + items[i].text > max_context_chars THEN <<>>
    ELSE <<items[i]>> \o Trim(items, i + 1, ctx_chars + items[i].text)

\* A retrieval whose failure is swallowed (not what the code does)
RetrieveSwallowingError ==
    /\ pc = "retrieve"
    /\ calls' = Bump("query")
    /\ \/ \E got \in RetrievedUniverse :
            /\ contexts' = Trim(got, 1, 0)
            /\ UNCHANGED error
       \/ contexts' = <<>> /\ error' = "TransportError"
    /\ pc' = "plan1"
    /\ UNCHANGED <<enable_mock_web_search, log_text, plan_raw, plan, critic_raw,
                   reviewed, reviewed_is_plan, web_results, result, gate_vars,
                   http_response, aux_vars>>

\* lines 92-106: query the store, format and trim the contexts
Retrieve ==
    /\ pc = "retrieve"
    /\ calls' = Bump("query")
    /\ \/ \E got \in RetrievedUniverse :
            /\ contexts' = Trim(got, 1, 0)
            /\ pc' = "plan1"
            /\ UNCHANGED error
       \/ Raise("TransportError") /\ UNCHANGED contexts
    /\ UNCHANGED <<enable_mock_web_search, log_text, plan_raw, plan, critic_raw,
                   reviewed, reviewed_is_plan, web_results, result, gate_vars, http_response, aux_vars>>

\* lines 108-115: build the planner prompt, call the Reasoner
Plan1 ==
    /\ pc = "plan1"
    /\ IF Binds(planner_prompt_params, 2, {})
       THEN /\ calls' = Bump("planner")
            /\ \/ \E raw \in RawUniverse :
                    /\ plan_raw' = raw
                    /\ pc' = "validate1"
                    /\ UNCHANGED error
               \/ Raise("TransportError") /\ UNCHANGED plan_raw
       ELSE Raise("TypeError") /\ UNCHANGED <<calls, plan_raw>>
    /\ UNCHANGED <<enable_mock_web_search, log_text, contexts, plan, critic_raw,
                   reviewed, reviewed_is_plan, web_results, result, gate_vars, http_response, aux_vars>>

\* A planner failure that is not terminal (not what the code does)
Validate1NoReturn ==
    /\ pc = "validate1"
    /\ LET r == ParseValidate(plan_raw) IN
       plan' = IF r.ok THEN r.obj ELSE CannedResponse(r.err)
    /\ pc' = "critic1"
    /\ UNCHANGED <<enable_mock_web_search, log_text, contexts, plan_raw,
                   critic_raw, reviewed, reviewed_is_plan, web_results, result,
                   error, calls, gate_vars, http_response, aux_vars>>

\* lines 117-139: parse and validate the planner output, or return the
\* canned result
Validate1 ==
    /\ pc = "validate1"
    /\ LET r == ParseValidate(plan_raw) IN
       IF r.ok
       THEN plan' = r.obj /\ pc' = "critic1" /\ UNCHANGED result
       ELSE Return(CannedResponse(r.err)) /\ UNCHANGED plan
    /\ UNCHANGED <<enable_mock_web_search, log_text, contexts, plan_raw,
                   critic_raw, reviewed, reviewed_is_plan, web_results, error,
                   calls, gate_vars, http_response, aux_vars>>

\* A critic call whose transport error is handled like an unparseable
\* answer (not what the code does)
Critic1ErrorAsParseFailure ==
    /\ pc = "critic1"
    /\ calls' = Bump("critic")
    /\ \/ \E raw \in RawUniverse : critic_raw' = raw /\ UNCHANGED error
       \/ critic_raw' = NotJson /\ error' = "TransportError"
    /\ pc' = "validate_critic1"
    /\ UNCHANGED <<enable_mock_web_search, log_text, contexts, plan_raw, plan,
                   reviewed, reviewed_is_plan, web_results, result, gate_vars,
                   http_response, aux_vars>>

\* lines 141-148: build the critic prompt, call the Reasoner
Critic1 ==
    /\ pc = "critic1"
    /\ IF Binds(critic_prompt_params, 3, {})
       THEN /\ calls' = Bump("critic")
            /\ \/ \E raw \in RawUniverse :
                    /\ critic_raw' = raw
                    /\ pc' = "validate_critic1"
                    /\ UNCHANGED error
               \/ Raise("TransportError") /\ UNCHANGED critic_raw
       ELSE Raise("TypeError") /\ UNCHANGED <<calls, critic_raw>>
    /\ UNCHANGED <<enable_mock_web_search, log_text, contexts, plan_raw, plan,
                   reviewed, reviewed_is_plan, web_results, result, gate_vars, http_response, aux_vars>>

\* A critic failure handled like a planner failure (not what the code does)
ValidateCritic1Canned ==
    /\ pc = "validate_critic1"
    /\ LET r == ParseValidate(critic_raw) IN
       IF r.ok
       THEN reviewed' = r.obj /\ reviewed_is_plan' = FALSE
       ELSE reviewed' = CannedResponse(r.err) /\ reviewed_is_plan' = FALSE
    /\ pc' = "safety1"
    /\ UNCHANGED <<enable_mock_web_search, log_text, contexts, plan_raw, plan,
                   critic_raw, web_results, result, error, calls, gate_vars, http_response, aux_vars>>

\* lines 150-156: parse and validate the critic output, or keep the plan
ValidateCritic1 ==
    /\ pc = "validate_critic1"
    /\ LET r == ParseValidate(critic_raw) IN
       IF r.ok
       THEN reviewed' = r.obj /\ reviewed_is_plan' = FALSE
       ELSE reviewed' = plan /\ reviewed_is_plan' = TRUE
    /\ pc' = "safety1"
    /\ UNCHANGED <<enable_mock_web_search, log_text, contexts, plan_raw, plan,
                   critic_raw, web_results, result, error, calls, gate_vars, http_response, aux_vars>>

\* lines 158-159: the Safety Gate, which changes the object it is given
Safety1 ==
    /\ pc = "safety1"
    /\ reviewed' = _safe_check(reviewed)
    /\ plan' = IF reviewed_is_plan THEN reviewed' ELSE plan
    /\ calls' = Bump("gate")
    /\ pc' = "decide"
    /\ UNCHANGED <<enable_mock_web_search, log_text, contexts, plan_raw,
                   critic_raw, reviewed_is_plan, web_results, result, error,
                   gate_vars, http_response, aux_vars>>

\* An escalation that does not look at the setting (not what the code does)
DecideIgnoringSetting ==
    /\ pc = "decide"
    /\ IF _needs_escalation(reviewed)
       THEN pc' = "search" /\ UNCHANGED result
       ELSE Return(reviewed)
    /\ UNCHANGED <<enable_mock_web_search, log_text, contexts, plan_raw, plan,
                   critic_raw, reviewed, reviewed_is_plan, web_results, error,
                   calls, gate_vars, http_response, aux_vars>>

\* line 162 (and line 210 when the condition is false)
Decide ==
    /\ pc = "decide"
    /\ IF enable_mock_web_search /\ _needs_escalation(reviewed)
       THEN pc' = "search" /\ UNCHANGED result
       ELSE Return(reviewed)
    /\ UNCHANGED <<enable_mock_web_search, log_text, contexts, plan_raw, plan,
                   critic_raw, reviewed, reviewed_is_plan, web_results, error,
                   calls, gate_vars, http_response, aux_vars>>

\* line 164: the length of log_text[:800]
QueryChars == 800
Prefix(len, n) == IF len > n THEN n ELSE len

\* A search that is given the whole log (not what the code does)
SearchWithWholeLog ==
    /\ pc = "search"
    /\ calls' = Bump("search")
    /\ web_query' = log_text
    /\ \E found \in WebResultsUniverse :
        /\ web_results' = found
        /\ IF found # <<>>
           THEN pc' = "plan2" /\ UNCHANGED result
           ELSE Return(reviewed)
    /\ UNCHANGED <<enable_mock_web_search, log_text, contexts, plan_raw, plan,
                   critic_raw, reviewed, reviewed_is_plan, error, gate_vars,
                   http_response, harness_vars>>

\* A search repeated until it finds something (not what the code does)
SearchUntilFound ==
    /\ pc = "search"
    /\ calls' = Bump("search")
    /\ web_query' = Prefix(log_text, QueryChars)
    /\ \E found \in WebResultsUniverse :
        /\ web_results' = found
        /\ pc' = IF found # <<>> THEN "plan2" ELSE "search"
    /\ UNCHANGED <<enable_mock_web_search, log_text, contexts, plan_raw, plan,
                   critic_raw, reviewed, reviewed_is_plan, result, error,
                   gate_vars, http_response, harness_vars>>

\* A second round entered whatever the search found (not what the code does)
SearchIgnoringEmpty ==
    /\ pc = "search"
    /\ calls' = Bump("search")
    /\ web_query' = Prefix(log_text, QueryChars)
    /\ \E found \in WebResultsUniverse : web_results' = found
    /\ pc' = "plan2"
    /\ UNCHANGED <<enable_mock_web_search, log_text, contexts, plan_raw, plan,
                   critic_raw, reviewed, reviewed_is_plan, result, error,
                   gate_vars, http_response, harness_vars>>

\* lines 164-171 (and line 210 when nothing is found)
Search ==
    /\ pc = "search"
    /\ calls' = Bump("search")
    /\ web_query' = Prefix(log_text, QueryChars)
    /\ \E found \in WebResultsUniverse :
        /\ web_results' = found
        /\ IF found # <<>>
           THEN pc' = "plan2" /\ UNCHANGED result
           ELSE Return(reviewed)
    /\ UNCHANGED <<enable_mock_web_search, log_text, contexts, plan_raw, plan,
                   critic_raw, reviewed, reviewed_is_plan, error, gate_vars,
                   http_response, harness_vars>>

\* lines 173-177: the second planner prompt is built with the keyword
\* argument web_results, which planner_prompt does not declare: the call of
\* planner_prompt raises TypeError before the Reasoner is called, outside
\* every try block. Lines 179-207 are not reached.
Plan2 ==
    /\ pc = "plan2"
    /\ ~Binds(planner_prompt_params, 2, {"web_results"})
    /\ Raise("TypeError")
    /\ UNCHANGED <<enable_mock_web_search, log_text, contexts, plan_raw, plan,
                   critic_raw, reviewed, reviewed_is_plan, web_results, result,
                   calls, gate_vars, http_response, aux_vars>>

\* BaseModel.model_dump: the fields of AnalysisResponse, those of the items
\* of its lists included, as plain data
model_dump(r) ==
    [status |-> r.status,
     root_cause |-> r.root_cause,
     confidence |-> r.confidence,
     reasoning_summary |-> r.reasoning_summary,
     evidence |-> [i \in 1..Len(r.evidence) |->
        [type |-> r.evidence[i].type, snippet |-> r.evidence[i].snippet,
         source |-> r.evidence[i].source]],
     plan_steps |-> [i \in 1..Len(r.plan_steps) |->
        [title |-> r.plan_steps[i].title, command |-> r.plan_steps[i].command,
         purpose |-> r.plan_steps[i].purpose,
         expected |-> r.plan_steps[i].expected, risk |-> r.plan_steps[i].risk]],
     info_requests |-> [i \in 1..Len(r.info_requests) |->
        [title |-> r.info_requests[i].title,
         command |-> r.info_requests[i].command,
         why |-> r.info_requests[i].why]]]

\* api.py, analyze_file lines 47-50 and analyze_text lines 62-64: a blank log
\* is answered 400 before analyze_log is called
Handle ==
    /\ pc = "request"
    /\ IF IsBlankLog(log_text)
       THEN /\ pc' = "rejected"
            /\ http_response' = [status |-> 400, body |-> None]
       ELSE /\ pc' = "embed"
            /\ UNCHANGED http_response
    /\ UNCHANGED <<enable_mock_web_search, log_text, contexts, plan_raw, plan,
                   critic_raw, reviewed, reviewed_is_plan, web_results, result,
                   error, calls, gate_vars, aux_vars>>

\* lines 51-52 and 65-66: the value analyze_log returned is serialized
Respond200 ==
    /\ pc = "done"
    /\ http_response = NoResponse
    /\ http_response' = [status |-> 200, body |-> model_dump(result)]
    /\ UNCHANGED <<pipeline_vars, gate_vars, aux_vars>>

\* A handler that converts transport errors only (not what the code does)
Respond500TransportOnly ==
    /\ pc = "failed"
    /\ error = "TransportError"
    /\ http_response = NoResponse
    /\ http_response' = [status |-> 500, body |-> None]
    /\ UNCHANGED <<pipeline_vars, gate_vars, aux_vars>>

\* lines 55-57 and 69-71: any exception analyze_log raised becomes a 500
Respond500 ==
    /\ pc = "failed"
    /\ http_response = NoResponse
    /\ http_response' = [status |-> 500, body |-> None]
    /\ UNCHANGED <<pipeline_vars, gate_vars, aux_vars>>

Init ==
    /\ pc = "request"
    /\ enable_mock_web_search \in BOOLEAN
    /\ log_text \in LogLens \cup BlankLogs
    /\ contexts = <<>>
    /\ plan_raw = NoText
    /\ plan = None
    /\ critic_raw = NoText
    /\ reviewed = None
    /\ reviewed_is_plan = FALSE
    /\ web_results = <<>>
    /\ result = None
    /\ error = "none"
    /\ calls = [c \in {"embed", "query", "planner", "critic", "search", "gate"} |-> 0]
    /\ gate_in = None
    /\ gate_out = None
    /\ gate_n = 0
    /\ http_response = NoResponse
    /\ AuxIdle

Next ==
    \/ Handle
    \/ Respond200
    \/ Respond500
    \/ Embed
    \/ Retrieve
    \/ Plan1
    \/ Validate1
    \/ Critic1
    \/ ValidateCritic1
    \/ Safety1
    \/ Decide
    \/ Search
    \/ Plan2

Spec == Init /\ [][Next]_vars

----------------------------------------------------------------------------
(* Properties of analyze_log *)

Terminated == pc \in {"done", "failed"}

\* The Reasoner answered and its answer parsed and validated
Usable(text) == text.kind # "unset" /\ ParseValidate(text).ok

\* The Reasoner answered and its answer failed to parse or to validate
Unusable(text) == text.kind # "unset" /\ ~ParseValidate(text).ok

\* The first-round candidate as lines 150-156 choose it, before the gate
FirstRoundCandidate ==
    IF Usable(critic_raw) THEN ParseValidate(critic_raw).obj
    ELSE ParseValidate(plan_raw).obj

\* C1: no step of a returned result carries a command that
\* is_command_dangerous flags.
C1_NoDangerousCommandReturned ==
    pc = "done" =>
        \A i \in 1..Len(result.plan_steps) :
            ~is_command_dangerous(result.plan_steps[i].command)

\* C1 witness: the critic wrote a plan whose second step is dangerous and
\* analyze_log has returned.
C1_Witness ==
    /\ pc = "done"
    /\ Usable(critic_raw)
    /\ Len(critic_raw.obj.plan_steps) = 2
    /\ ~is_command_dangerous(critic_raw.obj.plan_steps[1].command)
    /\ is_command_dangerous(critic_raw.obj.plan_steps[2].command)
    /\ result.plan_steps = <<>>

\* C2 (as claimed): a returned result has a status of the enum, and no plan
\* steps when its status is need_more_info.
C2_NeedMoreInfoHasNoSteps ==
    pc = "done" =>
        /\ result.status \in StatusValues
        /\ (result.status = "need_more_info" => result.plan_steps = <<>>)

\* C4: the planner role and the critic role are each invoked at most twice
\* and the fallback evidence source at most once.
C4_EscalationAtMostOnce ==
    /\ calls["planner"] <= 2
    /\ calls["critic"] <= 2
    /\ calls["search"] <= 1

\* C4 witness: the planner answered with confidence low, the escalation was
\* entered, and analyze_log has ended.
C4_Witness ==
    /\ Terminated
    /\ Usable(plan_raw)
    /\ plan_raw.obj.confidence = "low"
    /\ calls["search"] = 1

\* C5: once the first planner output has failed to parse or validate,
\* analyze_log has returned the canned result, and neither the critic, the
\* gate nor the fallback search was run, nor the planner a second time.
C5_PlannerFailureIsTerminal ==
    (Unusable(plan_raw) /\ pc # "validate1") =>
        /\ pc = "done"
        /\ result = CannedResponse(ParseValidate(plan_raw).err)
        /\ result.status = "need_more_info"
        /\ result.confidence = "low"
        /\ result.evidence = <<>>
        /\ result.plan_steps = <<>>
        /\ Len(result.info_requests) = 1
        /\ calls["planner"] = 1
        /\ calls["critic"] = 0
        /\ calls["search"] = 0
        /\ calls["gate"] = 0

\* C5 witness: the planner answered with text that is no JSON and
\* analyze_log has returned.
C5_Witness ==
    /\ pc = "done"
    /\ plan_raw = NotJson
    /\ Len(result.info_requests) = 1

\* C6: when the first critic output fails to parse or validate, the request
\* goes on to the Safety Gate, and the result handed to the gate (and so
\* the one that comes out of it) is the planner's validated result.
C6_CriticFailureKeepsPlan ==
    (Unusable(critic_raw) /\ pc # "validate_critic1") =>
        IF pc = "safety1"
        THEN /\ calls["gate"] = 0
             /\ error = "none"
             /\ reviewed = ParseValidate(plan_raw).obj
        ELSE /\ calls["gate"] = 1
             /\ reviewed = _safe_check(ParseValidate(plan_raw).obj)

\* C6 witness: the critic answered with text that is no JSON, the planner's
\* two-step plan stands before the gate.
C6_Witness ==
    /\ pc = "safety1"
    /\ critic_raw = NotJson
    /\ Len(reviewed.plan_steps) = 2
    /\ reviewed.status = "final"

\* C7 (as claimed): once the fallback evidence source has returned an item,
\* analyze_log fails only if a Reasoner call fails, and otherwise ends with
\* a result after a second planner call, a second critic call and a second
\* application of the gate.
C7_SecondRoundRuns ==
    (web_results # <<>> /\ Terminated) =>
        \/ pc = "failed" /\ error = "TransportError"
        \/ /\ pc = "done"
           /\ calls["planner"] = 2
           /\ calls["critic"] = 2
           /\ calls["gate"] = 2

\* C8 (as claimed): a second round in which no Reasoner call failed and
\* which did not obtain both a second planner output and a second critic
\* output returns the pre-escalation gated result.
C8_SecondRoundFailureFallsBack ==
    (/\ web_results # <<>>
     /\ Terminated
     /\ error # "TransportError"
     /\ calls["planner"] + calls["critic"] < 4) =>
        /\ pc = "done"
        /\ result = _safe_check(FirstRoundCandidate)

\* C9 (as claimed): a second round ends in the final selection: what is
\* returned is a second-round result that does not need escalation (status
\* final, plan steps, confidence not low) or else the pre-escalation gated
\* result.
C9_FinalSelection ==
    (web_results # <<>> /\ Terminated /\ error # "TransportError") =>
        /\ pc = "done"
        /\ \/ result = reviewed
           \/ /\ result.status = "final"
              /\ result.plan_steps # <<>>
              /\ result.confidence # "low"

\* C10: when the gated first-round result needs escalation and the fallback
\* evidence source finds nothing, analyze_log returns the gated first-round
\* result as it is, with no further Reasoner call.
C10_EmptySearchReturnsGated ==
    (calls["search"] = 1 /\ web_results = <<>> /\ pc # "search") =>
        /\ pc = "done"
        /\ result = reviewed
        /\ result = _safe_check(FirstRoundCandidate)
        /\ _needs_escalation(result)
        /\ calls["planner"] = 1
        /\ calls["critic"] = 1

\* C10 witness: a final two-step plan of low confidence went through the
\* gate, the search found nothing, and the plan was returned.
C10_Witness ==
    /\ pc = "done"
    /\ calls["search"] = 1
    /\ web_results = <<>>
    /\ result.confidence = "low"
    /\ Len(result.plan_steps) = 2

\* C11: when the gated first-round result does not need escalation, or the
\* escalation is switched off, analyze_log returns the gated first-round
\* result; the fallback evidence source is not queried and the Reasoner is
\* not invoked a third time.
C11_NoEscalationReturnsGated ==
    (/\ calls["gate"] = 1
     /\ pc # "decide"
     /\ (~enable_mock_web_search \/ ~_needs_escalation(reviewed))) =>
        /\ pc = "done"
        /\ result = reviewed
        /\ result = _safe_check(FirstRoundCandidate)
        /\ calls["search"] = 0
        /\ calls["planner"] + calls["critic"] = 2

\* C11 witness: the escalation is switched off, the gated result is of low
\* confidence, and it has been returned.
C11_Witness ==
    /\ pc = "done"
    /\ ~enable_mock_web_search
    /\ calls["gate"] = 1
    /\ result.confidence = "low"
    /\ result.plan_steps # <<>>

\* C12: with the escalation switched on, the escalation is entered exactly
\* when the gated result has status need_more_info, or no plan steps, or
\* confidence low; _needs_escalation is that predicate.
C12_EscalationTrigger ==
    LET weak == \/ reviewed.status = "need_more_info"
                \/ reviewed.plan_steps = <<>>
                \/ reviewed.confidence = "low"
    IN  /\ (calls["gate"] = 1 => (_needs_escalation(reviewed) <=> weak))
        /\ (calls["gate"] = 1 /\ pc # "decide" /\ enable_mock_web_search) =>
                ((calls["search"] = 1 \/ pc = "search") <=> weak)

\* C12 witness: a final plan with steps is escalated for its low confidence
\* alone.
C12_Witness ==
    /\ pc = "search"
    /\ reviewed.status = "final"
    /\ reviewed.plan_steps # <<>>
    /\ reviewed.confidence = "low"

\* C14: a transport error of a Reasoner call ends analyze_log with that
\* error: the call is not repeated, no later stage runs and no result is
\* returned in its place.
C14_TransportErrorIsFatal ==
    (error = "TransportError" /\ calls["planner"] >= 1) =>
        /\ pc = "failed"
        /\ result = None
        /\ calls["planner"] = 1
        /\ calls["critic"] <= 1
        /\ (calls["critic"] = 0 => plan_raw = NoText)
        /\ (calls["critic"] = 1 => critic_raw = NoText /\ Usable(plan_raw))
        /\ calls["gate"] = 0
        /\ calls["search"] = 0

\* C14 witness: the planner answered with a valid plan and the critic call
\* raised.
C14_Witness ==
    /\ pc = "failed"
    /\ error = "TransportError"
    /\ calls["critic"] = 1
    /\ Usable(plan_raw)

\* C18 (as claimed): every plan step of a returned result has a risk among
\* low, medium and high.
C18_RiskNormalized ==
    pc = "done" =>
        \A i \in 1..Len(result.plan_steps) :
            result.plan_steps[i].risk \in {"low", "medium", "high"}

----------------------------------------------------------------------------
(* Context window harness: lines 97-106 of analyze_log applied to a list   *)
(* of retrieved items drawn from a bounded set.                            *)

TrimLens == {0, 1000, 5000, 7000, max_context_chars, max_context_chars + 1}

TrimInputs == SeqsUpTo({ContextItem(l) : l \in TrimLens}, MaxCtxItems)

TrimApply ==
    /\ pc = "trim"
    /\ trim_out' = Trim(trim_in, 1, 0)
    /\ pc' = "trimmed"
    /\ UNCHANGED <<enable_mock_web_search, log_text, contexts, plan_raw, plan,
                   critic_raw, reviewed, reviewed_is_plan, web_results, result,
                   error, calls, gate_vars, http_response, trim_in, text_in,
                   parse_out, embed_in, embed_out, store, req,
                   web_query, search_in, search_out, chat>>

InitTrim ==
    /\ pc = "trim"
    /\ PipelineIdle
    /\ GateIdle
    /\ trim_in \in TrimInputs
    /\ trim_out = <<>>
    /\ text_in = <<>>
    /\ parse_out = <<>>
    /\ embed_in = <<>>
    /\ embed_out = <<>>
    /\ store = {}
    /\ req = <<>>
    /\ web_query = 0
    /\ search_in = <<>>
    /\ search_out = <<>>
    /\ chat = <<>>

NextTrim == TrimApply

SpecTrim == InitTrim /\ [][NextTrim]_vars

\* Total text length of the first k items
RECURSIVE PrefixChars(_, _)
PrefixChars(items, k) ==
    IF k = 0 THEN 0 ELSE PrefixChars(items, k - 1) + items[k].text

\* C13: the context window is the longest prefix of the retrieved items
\* whose total text length is within max_context_chars; the items are kept
\* whole, and nothing after the first item that overflows is kept.
C13_LongestPrefixWithinBudget ==
    pc = "trimmed" =>
        \E k \in 0..Len(trim_in) :
            /\ trim_out = SubSeq(trim_in, 1, k)
            /\ PrefixChars(trim_in, k) <= max_context_chars
            /\ \A j \in 0..Len(trim_in) :
                   PrefixChars(trim_in, j) <= max_context_chars => j <= k

\* C13 witness: of three items the second overflows the budget, the third
\* would have fitted, and only the first is kept.
C13_Witness ==
    /\ pc = "trimmed"
    /\ Len(trim_in) = 3
    /\ trim_in[1].text + trim_in[2].text > max_context_chars
    /\ trim_in[1].text + trim_in[3].text <= max_context_chars
    /\ trim_in[3].text > 0
    /\ trim_out = <<trim_in[1]>>

----------------------------------------------------------------------------
(* Parser harness: _parse_json_strict on raw text, token by token. A text  *)
(* is a tuple of tokens: the braces and brackets of JSON, "k" for a member *)
(* key with its colon, "w" for a word of prose and " " for white space.    *)
(* The record-level _parse_json_strict above is this function on the three *)
(* kinds of text the Reasoner of the pipeline model returns.               *)

Tokens == {"{", "}", "[", "]", "k", "w", " "}

Texts == SeqsUpTo(Tokens, MaxTextLen)

\* str.strip, line 50
RECURSIVE LStrip(_)
LStrip(t) == IF t # <<>> /\ t[1] = " " THEN LStrip(Tail(t)) ELSE t

RECURSIVE RStrip(_)
RStrip(t) ==
    IF t # <<>> /\ t[Len(t)] = " " THEN RStrip(SubSeq(t, 1, Len(t) - 1)) ELSE t

Strip(t) == RStrip(LStrip(t))

\* str.find and str.rfind, lines 56-57: the first and the last position of
\* c in t, 0 where Python returns -1
Find(t, c) ==
    IF \E i \in 1..Len(t) : t[i] = c
    THEN CHOOSE i \in 1..Len(t) : t[i] = c /\ \A j \in 1..(i - 1) : t[j] # c
    ELSE 0

RFind(t, c) ==
    IF \E i \in 1..Len(t) : t[i] = c
    THEN CHOOSE i \in 1..Len(t) : t[i] = c /\ \A j \in (i + 1)..Len(t) : t[j] # c
    ELSE 0

\* The JSON grammar on tokens without white space: an object is "{", at most
\* one member (a key and a value), "}"; an array is "[", at most one value,
\* "]"; a value is an object or an array.
RECURSIVE IsValue(_)
IsValue(u) ==
    /\ Len(u) >= 2
    /\ LET inner == SubSeq(u, 2, Len(u) - 1) IN
        \/ /\ u[1] = "{"
           /\ u[Len(u)] = "}"
           /\ (inner = <<>> \/ (inner[1] = "k" /\ IsValue(Tail(inner))))
        \/ /\ u[1] = "["
           /\ u[Len(u)] = "]"
           /\ (inner = <<>> \/ IsValue(inner))

\* json.loads, lines 53 and 59: white space between tokens is skipped; the
\* value read is written as its tokens, any other text raises
json_loads(t) ==
    LET u == SelectSeq(t, LAMBDA c : c # " ") IN
    IF IsValue(u) THEN [ok |-> TRUE, obj |-> u, err |-> "none"]
    ELSE [ok |-> FALSE, obj |-> <<>>, err |-> "JSONDecodeError"]

\* A recovery that slices from the first "{" to the end of the text (not
\* what the code does)
ParseSliceToEnd(text) ==
    LET t == Strip(text)
        direct == json_loads(t)
        start == Find(t, "{")
    IN  IF direct.ok THEN direct
        ELSE IF start # 0 THEN json_loads(SubSeq(t, start, Len(t)))
        ELSE direct

\* _parse_json_strict, lines 48-60, on a tuple of tokens
parse_json_strict_tokens(text) ==
    LET t == Strip(text)
        direct == json_loads(t)
        start == Find(t, "{")
        end == RFind(t, "}")
    IN  IF direct.ok THEN direct
        ELSE IF start # 0 /\ end # 0 /\ end > start
             THEN json_loads(SubSeq(t, start, end))
        ELSE direct

ParseApply ==
    /\ pc = "parse"
    /\ parse_out' = parse_json_strict_tokens(text_in)
    /\ pc' = "parsed"
    /\ UNCHANGED <<enable_mock_web_search, log_text, contexts, plan_raw, plan,
                   critic_raw, reviewed, reviewed_is_plan, web_results, result,
                   error, calls, gate_vars, http_response, trim_in, trim_out,
                   text_in, embed_in, embed_out, store, req,
                   web_query, search_in, search_out, chat>>

InitParse ==
    /\ pc = "parse"
    /\ PipelineIdle
    /\ GateIdle
    /\ text_in \in Texts
    /\ parse_out = <<>>
    /\ trim_in = <<>>
    /\ trim_out = <<>>
    /\ embed_in = <<>>
    /\ embed_out = <<>>
    /\ store = {}
    /\ req = <<>>
    /\ web_query = 0
    /\ search_in = <<>>
    /\ search_out = <<>>
    /\ chat = <<>>

NextParse == ParseApply

SpecParse == InitParse /\ [][NextParse]_vars

\* The text of a JSON object, alone
IsObjectText(t) == t # <<>> /\ t[1] = "{" /\ t[Len(t)] = "}" /\ json_loads(t).ok

Blank(t) == \A i \in 1..Len(t) : t[i] = " "

HasWord(t) == \E i \in 1..Len(t) : t[i] = "w"

BraceFree(t) == \A i \in 1..Len(t) : t[i] \notin {"{", "}"}

----------------------------------------------------------------------------
(* Properties of the request boundary (api.py) *)

NoCalls == \A c \in DOMAIN calls : calls[c] = 0

\* C17: a request ends with exactly one of: 200 and the serialization of the
\* plan analyze_log returned, whole; 400 for a blank log, analyze_log never
\* called; 500 when analyze_log raised, whatever it raised. A returned plan
\* and a raised exception that have not been answered yet can be answered.
C17_RequestBoundary ==
    /\ http_response.status \in {0, 200, 400, 500}
    /\ http_response.status = 200 =>
            /\ pc = "done"
            /\ http_response.body = model_dump(result)
            /\ model_validate_ok(http_response.body)
    /\ http_response.status = 400 =>
            /\ pc = "rejected"
            /\ IsBlankLog(log_text)
            /\ NoCalls
            /\ result = None
    /\ http_response.status = 500 =>
            /\ pc = "failed"
            /\ error # "none"
            /\ result = None
            /\ http_response.body = None
    /\ (IsBlankLog(log_text) /\ pc # "request") => http_response.status = 400
    /\ (pc = "done" /\ http_response.status = 0) => ENABLED Respond200
    /\ (pc = "failed" /\ http_response.status = 0) => ENABLED Respond500

\* C17 witness: analyze_log raised on its second planner call and the
\* request was answered 500.
C17_Witness ==
    /\ http_response.status = 500
    /\ error = "TypeError"

----------------------------------------------------------------------------
(* llm/clients.py: EmbeddingsClient.embed on a list of texts. A vector is  *)
(* written by the text it was computed for and its number of dimensions.   *)

\* line 39: the configured dimensionality
dims == 1024

EmbedTexts == {"t1", "t2"}

\* The dimensions an upstream vector may have
UpstreamDims == {dims - 1, dims, dims + 1}

\* line 74: emb[: self.dims], the first dims components of the vector, all
\* of them when it has fewer
Slice(len, n) == IF len > n THEN n ELSE len

\* lines 71-75: one vector per row of the upstream answer
embed(rows) ==
    [i \in 1..Len(rows) |-> [of |-> rows[i].of, len |-> Slice(rows[i].len, dims)]]

\* lines 45-75: the upstream service answers with an error status, or with
\* one row per text, in the order of the texts
EmbedApply ==
    /\ pc = "embedding"
    /\ \/ /\ pc' = "embed_failed"
          /\ UNCHANGED embed_out
       \/ \E lens \in [1..Len(embed_in) -> UpstreamDims] :
            /\ embed_out' =
                embed([i \in 1..Len(embed_in) |-> [of |-> embed_in[i], len |-> lens[i]]])
            /\ pc' = "embedded"
    /\ UNCHANGED <<enable_mock_web_search, log_text, contexts, plan_raw, plan,
                   critic_raw, reviewed, reviewed_is_plan, web_results, result,
                   error, calls, gate_vars, http_response, trim_in, trim_out,
                   text_in, parse_out, embed_in, store, req,
                   web_query, search_in, search_out, chat>>

InitEmbed ==
    /\ pc = "embedding"
    /\ PipelineIdle
    /\ GateIdle
    /\ embed_in \in SeqsUpTo(EmbedTexts, MaxTexts)
    /\ embed_out = <<>>
    /\ trim_in = <<>>
    /\ trim_out = <<>>
    /\ text_in = <<>>
    /\ parse_out = <<>>
    /\ store = {}
    /\ req = <<>>
    /\ web_query = 0
    /\ search_in = <<>>
    /\ search_out = <<>>
    /\ chat = <<>>

NextEmbed == EmbedApply

SpecEmbed == InitEmbed /\ [][NextEmbed]_vars

\* C19: embed returns one vector per text, in the order of the texts, and
\* every vector has exactly dims dimensions, whatever the upstream vector had.
C19_VectorsHaveConfiguredDims ==
    pc = "embedded" =>
        /\ Len(embed_out) = Len(embed_in)
        /\ \A i \in 1..Len(embed_out) :
            /\ embed_out[i].of = embed_in[i]
            /\ embed_out[i].len = dims

----------------------------------------------------------------------------
(* Two requests in analyze_log at once (analyze_text runs in the server's  *)
(* thread pool). What api.py shares between them is the vector store and   *)
(* the settings; everything else analyze_log names is local to the call.  *)
(* A request's collaborators are fixed when it arrives: the planner's      *)
(* answer as a function of the context it is shown, the critic's answer    *)
(* and what the fallback evidence source finds.                            *)

Requests == {1, 2}

\* The knowledge base in the store once the server has started
ConcStores ==
    {<<ContextItem(7000)>>, <<ContextItem(7000), ContextItem(5000)>>}

SafePlan ==
    [status |-> "final", root_cause |-> "rc", confidence |-> "high",
     reasoning_summary |-> "why", evidence |-> <<EvidenceItem>>,
     plan_steps |-> <<PlanStep(CmdGetPods, "med")>>, info_requests |-> <<>>]

DangerousPlan ==
    [SafePlan EXCEPT !.plan_steps = <<PlanStep(CmdRmRf, "high")>>]

\* The planner's answers, by the number of context items in its prompt
ConcPlanners ==
    [0..2 -> {[kind |-> "json", obj |-> SafePlan],
              [kind |-> "json", obj |-> DangerousPlan]}]

ConcCritics == {NotJson, [kind |-> "json", obj |-> SafePlan]}

ConcFound == {<<>>, <<WebItem>>}

\* lines 150-156: the critic's plan, or the planner's when it cannot be used
ReviewOf(p, craw) ==
    LET r == ParseValidate(craw) IN IF r.ok THEN r.obj ELSE p

\* lines 158-210, from the gate to the end of analyze_log
Conclude(enable, gated, found) ==
    IF enable /\ _needs_escalation(gated) /\ found # <<>>
          /\ ~Binds(planner_prompt_params, 2, {"web_results"})
    THEN [pc |-> "failed", result |-> None, error |-> "TypeError"]
    ELSE [pc |-> "done", result |-> gated, error |-> "none"]

\* analyze_log run alone against the store kb
AnalyzeAlone(kb, enable, planner, critic, found) ==
    LET seen == Trim(kb, 1, 0)
        v == ParseValidate(planner[Len(seen)])
    IN  IF ~v.ok
        THEN [pc |-> "done", result |-> CannedResponse(v.err), error |-> "none"]
        ELSE Conclude(enable, _safe_check(ReviewOf(v.obj, critic)), found)

ConcUnchanged ==
    UNCHANGED <<pc, enable_mock_web_search, log_text, contexts, plan_raw, plan,
                critic_raw, reviewed, reviewed_is_plan, web_results, result,
                error, calls, gate_vars, http_response, trim_in, trim_out,
                text_in, parse_out, embed_in, embed_out, web_query, search_in,
                search_out, chat>>

\* A retrieval that takes what it returns out of the store (not what the
\* code does)
CRetrieveConsuming(r) ==
    /\ req[r].pc = "retrieve"
    /\ req' = [req EXCEPT ![r] =
                [@ EXCEPT !.pc = "plan1", !.contexts = Trim(store, 1, 0)]]
    /\ store' = IF store = <<>> THEN store ELSE Tail(store)
    /\ ConcUnchanged

\* lines 84-106 in request r: embed, query the store, trim
CRetrieve(r) ==
    /\ req[r].pc = "retrieve"
    /\ req' = [req EXCEPT ![r] =
                [@ EXCEPT !.pc = "plan1", !.contexts = Trim(store, 1, 0)]]
    /\ UNCHANGED store
    /\ ConcUnchanged

\* lines 108-139 in request r: the planner call and its validation
CPlan(r) ==
    /\ req[r].pc = "plan1"
    /\ LET v == ParseValidate(req[r].planner[Len(req[r].contexts)]) IN
       req' = [req EXCEPT ![r] =
                IF v.ok
                THEN [@ EXCEPT !.pc = "critic1", !.plan = v.obj]
                ELSE [@ EXCEPT !.pc = "done", !.result = CannedResponse(v.err)]]
    /\ UNCHANGED store
    /\ ConcUnchanged

\* lines 141-210 in request r: the critic call, the gate, the escalation
CReview(r) ==
    /\ req[r].pc = "critic1"
    /\ LET gated == _safe_check(ReviewOf(req[r].plan, req[r].critic))
           end == Conclude(enable_mock_web_search, gated, req[r].found)
       IN  req' = [req EXCEPT ![r] =
                    [@ EXCEPT !.pc = end.pc, !.reviewed = gated,
                              !.result = end.result, !.error = end.error]]
    /\ UNCHANGED store
    /\ ConcUnchanged

InitConc ==
    /\ pc = "serving"
    /\ enable_mock_web_search \in BOOLEAN
    /\ log_text = 0
    /\ contexts = <<>>
    /\ plan_raw = NoText
    /\ plan = None
    /\ critic_raw = NoText
    /\ reviewed = None
    /\ reviewed_is_plan = FALSE
    /\ web_results = <<>>
    /\ result = None
    /\ error = "none"
    /\ calls = [c \in {"embed", "query", "planner", "critic", "search", "gate"} |-> 0]
    /\ http_response = NoResponse
    /\ GateIdle
    /\ trim_in = <<>>
    /\ trim_out = <<>>
    /\ text_in = <<>>
    /\ parse_out = <<>>
    /\ embed_in = <<>>
    /\ embed_out = <<>>
    /\ store \in ConcStores
    /\ req \in [Requests ->
            [pc : {"retrieve"}, kb : {store}, planner : ConcPlanners,
             critic : ConcCritics, found : ConcFound,
             contexts : {<<>>}, plan : {None}, reviewed : {None},
             result : {None}, error : {"none"}]]
    /\ web_query = 0
    /\ search_in = <<>>
    /\ search_out = <<>>
    /\ chat = <<>>

NextConc == \E r \in Requests : CRetrieve(r) \/ CPlan(r) \/ CReview(r)

SpecConc == InitConc /\ [][NextConc]_vars

\* C20: under every interleaving of two requests the store is what it was
\* when they arrived, and a request that has ended has ended as it would have
\* alone, with the same store and the same collaborator answers.
C20_RequestsIndependent ==
    \A r \in Requests :
        /\ store = req[r].kb
        /\ req[r].pc \in {"done", "failed"} =>
            LET alone == AnalyzeAlone(req[r].kb, enable_mock_web_search,
                                      req[r].planner, req[r].critic, req[r].found)
            IN  /\ req[r].pc = alone.pc
                /\ req[r].result = alone.result
                /\ req[r].error = alone.error

\* C20 witness: request 1 has returned a plan while request 2, whose planner
\* answers differently, is between its retrieval and its planner call.
C20_Witness ==
    /\ req[1].pc = "done"
    /\ req[1].result.plan_steps # <<>>
    /\ req[2].pc = "plan1"
    /\ req[2].planner # req[1].planner
    /\ Len(req[2].contexts) = 2

----------------------------------------------------------------------------
(* Order of the stages of analyze_log *)

Called(c) == calls'[c] > calls[c]

\* C21: a stage is entered only when the stage before it has been called once
\* and nothing has failed: the Embedder first, then the Retriever, then the
\* planner, the critic once the planner's answer has been parsed and
\* validated, the Safety Gate on the first-round candidate, and the fallback
\* evidence source once the gated result has been found to need escalation.
C21_StageOrder ==
    [][/\ Called("embed") => NoCalls
       /\ Called("query") =>
            (calls["embed"] = 1 /\ calls["planner"] = 0 /\ error = "none")
       /\ Called("planner") =>
            (calls["query"] = 1 /\ calls["critic"] = 0 /\ error = "none")
       /\ Called("critic") =>
            /\ calls["planner"] = 1 /\ calls["gate"] = 0 /\ error = "none"
            /\ Usable(plan_raw)
            /\ plan = ParseValidate(plan_raw).obj
       /\ Called("gate") =>
            /\ calls["critic"] = 1 /\ calls["search"] = 0 /\ error = "none"
            /\ critic_raw # NoText
            /\ reviewed = FirstRoundCandidate
       /\ Called("search") =>
            /\ calls["gate"] = 1 /\ error = "none"
            /\ reviewed = _safe_check(FirstRoundCandidate)
            /\ enable_mock_web_search
            /\ _needs_escalation(reviewed)
       /\ \A c \in DOMAIN calls : calls'[c] <= calls[c] + 1
      ]_vars

\* C21 witness: every stage of the first round and the search have run, and
\* analyze_log has returned.
C21_Witness ==
    /\ pc = "done"
    /\ \A c \in DOMAIN calls : calls[c] = 1

\* C26: once a Reasoner has been called the Embedder and the Retriever have
\* each been called exactly once, and neither is called again, whatever
\* follows; from the first planner call on the truncated log text and the
\* trimmed context window stay what they were, the escalation included; and
\* the query of the fallback search is the first 800 characters of the
\* truncated log text.
C26_EmbedRetrieveOnce ==
    [][/\ calls["planner"] >= 1 =>
            /\ calls["embed"] = 1 /\ calls["query"] = 1
            /\ calls'["embed"] = 1 /\ calls'["query"] = 1
            /\ log_text' = log_text
            /\ contexts' = contexts
            /\ log_text <= max_log_chars + TruncationMarkerLen
            /\ contexts = Trim(contexts, 1, 0)
       /\ Called("search") =>
            web_query' = (IF log_text > 800 THEN 800 ELSE log_text)
       /\ calls["search"] >= 1 => web_query' = web_query
      ]_vars

\* C26 witness: a log longer than max_log_chars has been truncated, the
\* escalation has searched with its first 800 characters and found an item,
\* and the second round has begun and ended.
C26_Witness ==
    /\ calls["search"] = 1
    /\ web_results # <<>>
    /\ log_text = max_log_chars + TruncationMarkerLen
    /\ web_query = 800
    /\ contexts # <<>>
    /\ pc = "failed"
    /\ calls["embed"] = 1
    /\ calls["query"] = 1

----------------------------------------------------------------------------
(* rag/mock_web_search.py: mock_web_search on a query and a corpus. A file *)
(* of the corpus is named by its rank among the file names in sorted       *)
(* order; a result is written by the file it comes from and its score.     *)

\* line 9: the characters re.sub keeps; every other one becomes a space
QueryKept ==
    (WordChars \ DOMAIN UpperToLower) \cup SpaceChars \cup {"-", "/", ".", ":"}

Sub(q) == [i \in 1..Len(q) |-> IF q[i] \in QueryKept THEN q[i] ELSE " "]

\* str.split(): the maximal runs of characters that are not white space
RECURSIVE Split(_, _)
Split(t, word) ==
    IF t = <<>> THEN (IF word = <<>> THEN <<>> ELSE <<word>>)
    ELSE IF t[1] \in SpaceChars
         THEN (IF word = <<>> THEN <<>> ELSE <<word>>) \o Split(Tail(t), <<>>)
         ELSE Split(Tail(t), Append(word, t[1]))

\* lines 7-11
_tokenize(q) ==
    LET toks == SelectSeq(Split(Sub(Lower(q)), <<>>), LAMBDA t : Len(t) >= 3)
    IN  SubSeq(toks, 1, IF Len(toks) > 25 THEN 25 ELSE Len(toks))

\* str.count: the occurrences of tok in t that do not overlap, from the left
RECURSIVE Count(_, _)
Count(t, tok) ==
    IF Len(t) < Len(tok) THEN 0
    ELSE IF SubSeq(t, 1, Len(tok)) = tok
         THEN 1 + Count(SubSeq(t, Len(tok) + 1, Len(t)), tok)
         ELSE Count(Tail(t), tok)

\* lines 13-19
RECURSIVE _score(_, _)
_score(text, tokens) ==
    IF tokens = <<>> THEN 0
    ELSE Count(Lower(text), tokens[1]) + _score(text, Tail(tokens))

\* sorted(web_dir.glob("*.md")), line 34: the files in the order of their names
RECURSIVE SortedFiles(_)
SortedFiles(S) ==
    IF S = {} THEN <<>>
    ELSE LET least == CHOOSE x \in S : \A y \in S : x <= y
         IN  <<least>> \o SortedFiles(S \ {least})

\* lines 34-49: one result for every file with a positive score
RECURSIVE Results(_, _, _)
Results(files, corpus, tokens) ==
    IF files = <<>> THEN <<>>
    ELSE LET s == _score(corpus[files[1]], tokens)
         IN  (IF s <= 0 THEN <<>> ELSE <<[source |-> files[1], score |-> s]>>)
                \o Results(Tail(files), corpus, tokens)

\* list.sort(key=score, reverse=True), line 51: a stable sort, so results of
\* equal score keep their order
RECURSIVE SortByScore(_)
SortByScore(rs) ==
    IF rs = <<>> THEN <<>>
    ELSE LET best == CHOOSE i \in 1..Len(rs) :
                        /\ \A j \in 1..Len(rs) : rs[j].score <= rs[i].score
                        /\ \A j \in 1..(i - 1) : rs[j].score < rs[i].score
         IN  <<rs[best]>> \o
             SortByScore(SubSeq(rs, 1, best - 1) \o SubSeq(rs, best + 1, Len(rs)))

\* A sort by increasing score (not what the code does)
SearchLowestFirst(query, top_k, exists, corpus) ==
    LET tokens == _tokenize(query) IN
    IF tokens = <<>> \/ ~exists THEN <<>>
    ELSE LET sorted ==
                SortByScore(Results(SortedFiles(DOMAIN corpus), corpus, tokens))
             rev == [i \in 1..Len(sorted) |-> sorted[Len(sorted) + 1 - i]]
         IN  SubSeq(rev, 1, IF Len(rev) > top_k THEN top_k ELSE Len(rev))

\* lines 21-52
mock_web_search(query, top_k, exists, corpus) ==
    LET tokens == _tokenize(query) IN
    IF tokens = <<>> THEN <<>>
    ELSE IF ~exists THEN <<>>
    ELSE LET sorted ==
                SortByScore(Results(SortedFiles(DOMAIN corpus), corpus, tokens))
         IN  SubSeq(sorted, 1, IF Len(sorted) > top_k THEN top_k ELSE Len(sorted))

\* Queries: no text, a word too short to be a token, a word in capitals, two
\* words of which one holds the other, and one word twice around a character
\* re.sub replaces
SearchQueries ==
    {<<>>,
     <<"a", "b">>,
     <<"O", "O", "M">>,
     <<"o", "o", "m", " ", "o", "o", "m", "s">>,
     <<"o", "o", "m", "!", "o", "o", "m">>}

\* Texts of the files of the corpus
DocTexts ==
    {<<"p", "o", "d">>,
     <<"O", "o", "m">>,
     <<"o", "o", "m", "s">>,
     <<"o", "o", "m", "\n", "o", "o", "m">>}

\* Corpora: every choice of at most MaxDocs files and their texts
Corpora == UNION {[S -> DocTexts] : S \in SUBSET (1..MaxDocs)}

TopKs == {1, 2, web_mock_top_k}

SearchApply ==
    /\ pc = "searching"
    /\ search_out' = mock_web_search(search_in.query, search_in.top_k,
                                     search_in.exists, search_in.corpus)
    /\ pc' = "searched"
    /\ UNCHANGED <<enable_mock_web_search, log_text, contexts, plan_raw, plan,
                   critic_raw, reviewed, reviewed_is_plan, web_results, result,
                   error, calls, gate_vars, http_response, trim_in, trim_out,
                   text_in, parse_out, embed_in, embed_out, store, req,
                   web_query, search_in, chat>>

InitSearch ==
    /\ pc = "searching"
    /\ PipelineIdle
    /\ GateIdle
    /\ search_in \in [query : SearchQueries, top_k : TopKs, exists : BOOLEAN,
                      corpus : Corpora]
    /\ search_out = <<>>
    /\ trim_in = <<>>
    /\ trim_out = <<>>
    /\ text_in = <<>>
    /\ parse_out = <<>>
    /\ embed_in = <<>>
    /\ embed_out = <<>>
    /\ store = {}
    /\ req = <<>>
    /\ web_query = 0
    /\ chat = <<>>

NextSearch == SearchApply

SpecSearch == InitSearch /\ [][NextSearch]_vars

\* The files of the corpus with a score of at least 1
Hits(in) ==
    {f \in DOMAIN in.corpus : _score(in.corpus[f], _tokenize(in.query)) >= 1}

\* Result a comes before result b: a higher score, or the same score and an
\* earlier file name
Before(a, b) ==
    a.score > b.score \/ (a.score = b.score /\ a.source < b.source)

\* C23: the results are the first top_k of the files with a score of at
\* least 1, in the order of non-increasing score, files of equal score in
\* the order of their names; there is none when the query has no token of
\* three characters or more or the corpus directory does not exist. The list
\* is determined by the corpus, the query and top_k.
C23_TopKByScore ==
    pc = "searched" =>
        LET in == search_in
            out == search_out
            hits == IF _tokenize(in.query) = <<>> \/ ~in.exists THEN {} ELSE Hits(in)
        IN  /\ Len(out) = (IF Cardinality(hits) > in.top_k THEN in.top_k
                           ELSE Cardinality(hits))
            /\ \A i \in 1..Len(out) :
                /\ out[i].source \in hits
                /\ out[i].score = _score(in.corpus[out[i].source], _tokenize(in.query))
            /\ \A i \in 1..Len(out) : \A j \in (i + 1)..Len(out) : Before(out[i], out[j])
            /\ \A f \in hits :
                (\A i \in 1..Len(out) : out[i].source # f) =>
                    \A i \in 1..Len(out) :
                        Before(out[i], [source |-> f,
                            score |-> _score(in.corpus[f], _tokenize(in.query))])
            /\ LET words == Split(Sub(Lower(in.query)), <<>>) IN
               (\A i \in 1..Len(words) : Len(words[i]) < 3) => out = <<>>
            /\ ~in.exists => out = <<>>

\* C23 witness: of three files that score 1, 2 and 2 for the query, the two
\* that score 2 are returned, in the order of their names.
C23_Witness ==
    /\ pc = "searched"
    /\ search_in.top_k = 2
    /\ DOMAIN search_in.corpus = {1, 2, 3}
    /\ Len(search_out) = 2
    /\ search_out[1] = [source |-> 2, score |-> 2]
    /\ search_out[2] = [source |-> 3, score |-> 2]
    /\ _score(search_in.corpus[1], _tokenize(search_in.query)) = 1

----------------------------------------------------------------------------
(* ui/app_chainlit.py: ChatSession.send. The session is its history; of a  *)
(* call of send the model keeps the argument, what the server did, the     *)
(* value returned (or that an exception left the call) and the number of   *)
(* requests posted so far.                                                 *)

UserTexts ==
    {<<>>, <<" ">>, <<"h", "i">>, <<" ", "h", "i", " ">>, <<"y", "o">>}

\* What requests.post and the server may do: raise, answer with an error
\* status, answer 200 with a JSON body that does not parse, with a JSON
\* object, or with a body that is not declared as JSON
ServerOutcomes == {"transport_error", "http_error", "bad_json", "json", "not_json"}

\* JSON objects a server may answer with (as functions from their keys)
ServerData ==
    {[k \in {"root_cause"} |-> "oom"],
     [k \in {"root_cause"} |-> ""],
     [k \in {"reply"} |-> "hello"]}

\* dict.get(key) or default
GetOr(d, key, default) ==
    IF key \in DOMAIN d /\ d[key] # "" THEN d[key] ELSE default

\* render_summary, lines 59-71: the three headed parts; never empty
render_summary(resp) ==
    <<"Root Cause", GetOr(resp, "root_cause", "Unknown"),
      "Plan Steps", GetOr(resp, "plan_steps", "_No plan steps provided._"),
      "Information Needed",
      GetOr(resp, "info_requests", "_No additional information requested._")>>

Turn(role, content) == [role |-> role, content |-> content]

\* A send that records the user turn only once the server has answered (not
\* what the code does)
SendAppendingAfterReply ==
    /\ pc = "chatting"
    /\ chat.n < MaxSends
    /\ \E user_text \in UserTexts, outcome \in ServerOutcomes, data \in ServerData :
        LET t == Strip(user_text)
            body == IF outcome = "json" THEN data ELSE <<>>
            answer == render_summary(body)
        IN  chat' =
              IF t = <<>>
              THEN [chat EXCEPT !.sent = user_text, !.outcome = "none",
                                !.ret = <<>>, !.raised = FALSE, !.n = @ + 1]
              ELSE IF outcome \in {"transport_error", "http_error", "bad_json"}
              THEN [chat EXCEPT !.sent = user_text, !.outcome = outcome,
                                !.ret = <<>>, !.raised = TRUE,
                                !.posts = @ + 1, !.n = @ + 1]
              ELSE [chat EXCEPT !.sent = user_text, !.outcome = outcome,
                                !.ret = answer, !.raised = FALSE,
                                !.history = @ \o <<Turn("user", t),
                                                   Turn("assistant", answer)>>,
                                !.posts = @ + 1, !.n = @ + 1]
    /\ UNCHANGED <<pipeline_vars, gate_vars, http_response, trim_in, trim_out,
                   text_in, parse_out, embed_in, embed_out, store, req,
                   web_query, search_in, search_out>>

\* ChatSession.send, lines 104-152
Send ==
    /\ pc = "chatting"
    /\ chat.n < MaxSends
    /\ \E user_text \in UserTexts, outcome \in ServerOutcomes, data \in ServerData :
        LET t == Strip(user_text)
            body == IF outcome = "json" THEN data ELSE <<>>
            answer == render_summary(body)
            asked == Append(chat.history, Turn("user", t))
        IN  chat' =
              IF t = <<>>
              THEN [chat EXCEPT !.sent = user_text, !.outcome = "none",
                                !.ret = <<>>, !.raised = FALSE, !.n = @ + 1]
              ELSE IF outcome \in {"transport_error", "http_error", "bad_json"}
              THEN [chat EXCEPT !.sent = user_text, !.outcome = outcome,
                                !.ret = <<>>, !.raised = TRUE,
                                !.history = asked,
                                !.posts = @ + 1, !.n = @ + 1]
              ELSE [chat EXCEPT !.sent = user_text, !.outcome = outcome,
                                !.ret = answer, !.raised = FALSE,
                                !.history = IF answer # <<>>
                                    THEN Append(asked, Turn("assistant", answer))
                                    ELSE asked,
                                !.posts = @ + 1, !.n = @ + 1]
    /\ UNCHANGED <<pipeline_vars, gate_vars, http_response, trim_in, trim_out,
                   text_in, parse_out, embed_in, embed_out, store, req,
                   web_query, search_in, search_out>>

InitChat ==
    /\ pc = "chatting"
    /\ PipelineIdle
    /\ GateIdle
    /\ chat = [history |-> <<>>, sent |-> <<>>, outcome |-> "none",
               ret |-> <<>>, raised |-> FALSE, posts |-> 0, n |-> 0]
    /\ trim_in = <<>>
    /\ trim_out = <<>>
    /\ text_in = <<>>
    /\ parse_out = <<>>
    /\ embed_in = <<>>
    /\ embed_out = <<>>
    /\ store = {}
    /\ req = <<>>
    /\ web_query = 0
    /\ search_in = <<>>
    /\ search_out = <<>>

NextChat == Send

SpecChat == InitChat /\ [][NextChat]_vars

\* C27: a send of a blank message returns the empty string, posts nothing
\* and leaves the history as it was; a send of any other message posts one
\* request and puts the user turn at the end of the history before it does,
\* so that when the call returns the history is longer by that user turn and
\* one assistant turn holding the value returned, and when the call fails
\* (no answer, or an error status) it is longer by the user turn only.
C27_SendHistory ==
    [][LET t == Strip(chat'.sent)
           old == chat.history
           new == chat'.history
       IN  /\ Blank(chat'.sent) =>
                /\ chat'.ret = <<>>
                /\ ~chat'.raised
                /\ chat'.posts = chat.posts
                /\ new = old
           /\ ~Blank(chat'.sent) =>
                /\ chat'.posts = chat.posts + 1
                /\ chat'.outcome \in {"transport_error", "http_error"} => chat'.raised
                /\ chat'.raised => new = Append(old, Turn("user", t))
                /\ ~chat'.raised =>
                        new = old \o <<Turn("user", t), Turn("assistant", chat'.ret)>>
      ]_vars

\* C27 witness: after a send that was answered, a second send of a message
\* with white space around it met an error status; the history holds the
\* first exchange and the second user turn, stripped.
C27_Witness ==
    /\ pc = "chatting"
    /\ chat.n = 2
    /\ chat.outcome = "http_error"
    /\ chat.posts = 2
    /\ Len(chat.history) = 3
    /\ chat.history[2].role = "assistant"
    /\ chat.history[3] = Turn("user", <<"h", "i">>)
    /\ chat.sent = <<" ", "h", "i", " ">>

====
